---------------------------- MODULE Spec2Model ----------------------------
(* Verification model of pshell: the process-termination escalation      *)
(* (pshell/procs.py, kill), the wait for a listening port                *)
(* (pshell/procs.py, wait_for_server), the search of the process table   *)
(* (pshell/procs.py, find_procs_by_cmdline and killall), the command     *)
(* executor (pshell/call.py, call, check_call, check_output) and its     *)
(* pipe bridge for streams that have no file descriptor (real_fh), the   *)
(* temporary override of an environment variable (pshell/env.py,         *)
(* override_env) and the bounded file match (pshell/search.py, iglob).   *)
EXTENDS Integers, Sequences, FiniteSets, TLC

VARIABLES
    \* ---- the operating system's process table, as kill sees it
    alive,          \* alive[p]: PID p is a running process
    \* ---- one call of kill(*procs, term_timeout)
    args,           \* the positional arguments, in call order
    term_timeout,   \* seconds between SIGTERM and SIGKILL
    kpc,            \* position of the call: idle, filter, term, wait, kill, done, raised
    idx,            \* loop index of the running for-loop
    psutil_procs,   \* list built by the filtering loop
    kill_procs,     \* list of the processes to SIGKILL
    timedOut,       \* psutil.wait_procs gave up after term_timeout seconds
    sigLog,         \* history: every terminate()/kill() call made, with its outcome
    aliveAtWait,    \* history: the processes alive when wait_procs returned
    aliveAtCall,    \* history: the processes alive when kill was called
    kexc,           \* exception the call raised, "" if none
    \* ---- one "with real_fh(fh) as ...:" block
    fh,             \* the stream given: its kind and whether its write() raises
    payload,        \* what the body of the block writes to the yielded stream
    bodyPlan,       \* how the body ends: "return" or "raise"
    spc,            \* position of the scope: init, body, closing, joining, closein, exited
    yielded,        \* what the block was handed: "None", "fh" or "pipe_w"
    nsent,          \* items of payload the body has written so far
    wbuf,           \* user-space buffer of real_fh_out
    pipe,           \* kernel buffer of the pipe
    wopen,          \* the write end of the pipe is open
    ropen,          \* the read end of the pipe is open
    fpc,            \* flusher thread: none, read, write, done, crashed
    chunk,          \* data of the running real_fh_in.read(4096)
    dest,           \* content of the original stream fh
    fhClosed,       \* the original stream has been closed
    sexc,           \* exception that leaves the block, "" if none
    teardown,       \* history: the steps of the finally clause, in order
    \* ---- one call of wait_for_server(proc, port, ignore_ports=, timeout=)
    wProc,          \* the observed process: "running", "zombie" (exited, not reaped) or "gone"
    wListen,        \* ports the observed process has in LISTEN state
    wIsPid,         \* proc was given as an int PID rather than as a psutil.Process
    wPort,          \* the port argument
    wIgnore,        \* the ignore_ports argument, as a set
    wTimeout,       \* the timeout argument
    wpc,            \* position of the call: idle, poll, check, sleep, returned, raised
    now,            \* time.time()
    t0,             \* local t0
    wret,           \* the port returned
    wexc,           \* exception the call raised, "" if none
    lastListen,     \* history: the LISTEN ports proc.connections() gave at the last poll
    wPolled,        \* history: a poll has read the connections
    wProcAtCall,    \* history: the state of the process when the call was made
    wElapsed,       \* history: time.time() - t0 at the last timeout test
    \* ---- one call of find_procs_by_cmdline(*cmdlines)
    osName,         \* os.name: "posix" or "nt"
    environ,        \* os.environ: the value of the variable V, or Unset
    cmdlines,       \* the positional arguments, in call order
    owner,          \* owner[p]: the user process p runs as
    cmdline,        \* cmdline[p]: the argument list of process p
    access,         \* access[p]: what inspecting p meets: "ok", "gone" or "denied"
    findpc,         \* position of the call: idle, scan, returned, raised
    matches,        \* local matches
    pidx,           \* position of process_iter()
    fprocs,         \* local procs, the list returned
    fexc,           \* exception the call raised, "" if none
    pidOf,          \* pidOf[i]: PID of the i-th process process_iter() yields; 0 when
                    \* the call is studied on its own and the PIDs play no part
    \* ---- one call of call, check_call or check_output
    cFn,            \* the function called
    cCmd,           \* the cmd argument: its kind and its value
    cShell,         \* the shell argument
    cPwd,           \* the obfuscate_pwd argument, <<>> for None
    cOs,            \* os.name
    cTimeout,       \* the timeout argument
    cStream,        \* the stream given for stdout/stderr
    cProg,          \* the program: whether it exists, its exit code, how long it runs
    cDesc,          \* when the descendants the child leaves behind close the streams
                    \* they inherited; 0 if the child leaves none
    cpc,            \* position of the call: idle, enter, popen, wait, exit, returned, raised
    cexc,           \* exception raised, "" if none
    ccode,          \* exit code returned, or carried by CalledProcessError
    logged,         \* history: the command as logged, <<>> before
    executed,       \* history: what was handed to subprocess
    spawned,        \* history: a child process was started
    bridged,        \* history: real_fh made a pipe and a flusher thread
    cNow,           \* time elapsed since the call
    \* ---- one override_env block
    oenv,           \* os.environ: for each variable whether it is set, and its value
    ekey,           \* the key argument
    evalue,         \* the value argument; not set for None
    orig,           \* the local orig: os.getenv(key) at entry, not set for None
    ebody,          \* how the body ends: "return" or "raise"
    epc,            \* idle, body, finally, left (block left, with the exception of
                    \* the body if it raised), refused (exception before the body),
                    \* broken (exception of the finally clause)
    \* ---- one iterator made by iglob
    gtotal,         \* how many results the underlying glob.iglob has
    gpathOk,        \* resolve_env finds every variable of pathname
    gmin,           \* min_results
    gmax,           \* max_results, NoMax for None
    gcount,         \* the local count
    gconsumed,      \* results taken from the underlying iterator
    gyielded,       \* results handed to the caller
    gpc,            \* new (not started), suspended (at the yield), done, raised
    gexc            \* the exception raised: its type, got_results and the
                    \* maybe_extra_results flag

killVars == <<alive, args, term_timeout, kpc, idx, psutil_procs, kill_procs,
              timedOut, sigLog, aliveAtWait, aliveAtCall, kexc>>

fhVars == <<fh, payload, bodyPlan, spc, yielded, nsent, wbuf, pipe, wopen, ropen,
            fpc, chunk, dest, fhClosed, sexc, teardown>>

wfsVars == <<wProc, wListen, wIsPid, wPort, wIgnore, wTimeout, wpc, now, t0,
             wret, wexc, lastListen, wPolled, wProcAtCall, wElapsed>>

findVars == <<osName, environ, cmdlines, owner, cmdline, access, findpc, matches,
              pidx, fprocs, fexc, pidOf>>

callVars == <<cFn, cCmd, cShell, cPwd, cOs, cTimeout, cStream, cProg, cDesc, cpc,
              cexc, ccode, logged, executed, spawned, bridged, cNow>>

envVars == <<oenv, ekey, evalue, orig, ebody, epc>>

globVars == <<gtotal, gpathOk, gmin, gmax, gcount, gconsumed, gyielded, gpc, gexc>>

miscVars == <<callVars, envVars, globVars>>

vars == <<killVars, fhVars, wfsVars, findVars, miscVars>>

-----------------------------------------------------------------------------
(* Bounds of the model *)
NumTargets == 3     \* processes that are neither the caller nor its ancestors
MaxArgs == 2        \* longest argument list of a kill call

(* The process tree.  PIDs 1..Me form the chain init <- shell <- caller;   *)
(* PID Me+1 is a child of the caller, every further PID a child of init.   *)
Me == 3
Pids == 1..(Me + NumTargets)
Targets == (Me + 1)..(Me + NumTargets)

\* the default of term_timeout, standing for every value other than 0
DefaultTermTimeout == 10

Parent(p) == IF p = 1 THEN 0
             ELSE IF p <= Me + 1 THEN p - 1
             ELSE 1

RECURSIVE Ancestors(_)
Ancestors(p) == IF Parent(p) = 0 THEN {} ELSE {Parent(p)} \cup Ancestors(Parent(p))

\* PIDs owned by another user: sending them a signal raises AccessDenied.
Foreign == {1, Me + 2}

\* psutil.Process.children(recursive=True): the live descendants of p.
Children(p) == {q \in Pids : alive[q] /\ p \in Ancestors(q)}

-----------------------------------------------------------------------------
(* Arguments of kill *)
IntArg(p) == [t |-> "int", pid |-> p]
ProcArg(p) == [t |-> "proc", pid |-> p]
NoneArg == [t |-> "none", pid |-> 0]
StrArg == [t |-> "str", pid |-> 0]
ArgVals == {NoneArg, StrArg} \cup {IntArg(p) : p \in Pids} \cup {ProcArg(p) : p \in Pids}

SeqsUpTo(S, n) == UNION {[1..m -> S] : m \in 0..n}

\* every list without repetition of the members of S
SeqsOfSet(S) == {s \in [1..Cardinality(S) -> S] : \A i, j \in 1..Cardinality(S) : s[i] = s[j] => i = j}

Range(s) == {s[i] : i \in 1..Len(s)}

\* the isinstance chain of the filtering loop
ClassifyLenient(a) == IF a.t = "str" THEN "none" ELSE a.t
Classify(a) == IF a.t \in {"int", "none", "proc"} THEN a.t ELSE "bad"

\* the exclusion of the current process and of its parents
IsProtectedNobody(p) == FALSE
IsProtectedParentOnly(p) == p = Me \/ p = Parent(Me)
IsProtected(p) == p = Me \/ Me \in Children(p)

\* os.kill as psutil wraps it: the outcome of sending a signal to p
SendSignal(p) == IF ~alive[p] THEN "gone"
                 ELSE IF p \in Foreign THEN "denied"
                 ELSE "ok"

\* the exception psutil raises for an outcome
ExcOf(r) == IF r = "gone" THEN "NoSuchProcess"
            ELSE IF r = "denied" THEN "AccessDenied"
            ELSE ""

\* the exceptions the try block of each step catches (ZombieProcess is a
\* NoSuchProcess): the filtering loop catches NoSuchProcess, the two signal
\* loops catch NoSuchProcess and AccessDenied
HandledInSignalLoopsOnly(step) == IF step \in {"term", "kill"}
                                  THEN {"NoSuchProcess", "AccessDenied"} ELSE {}
HandledNoSuchProcessOnly(step) == {"NoSuchProcess"}
Handled(step) == IF step \in {"term", "kill"} THEN {"NoSuchProcess", "AccessDenied"}
                 ELSE {"NoSuchProcess"}

\* what the filtering loop meets for an int or psutil.Process argument:
\* psutil.Process(pid) raises NoSuchProcess for a PID that is not running;
\* proc.children() of a process that has exited raises NoSuchProcess or, with
\* the psutil releases that only check for PID reuse, returns no children
FilterOutcomes(a) ==
    IF ~alive[a.pid]
    THEN IF a.t = "int" THEN {"NoSuchProcess"} ELSE {"NoSuchProcess", "keep"}
    ELSE IF IsProtected(a.pid) THEN {"skip"} ELSE {"keep"}

\* the loop variable after an iteration with outcome r, in a loop over n
\* entries: a failure is logged or passed over and the loop goes on
LoopNextAbort(i, r, n) == IF r = "ok" THEN i + 1 ELSE n + 1
LoopNext(i, r, n) == i + 1

\* the signal each phase of the call sends
SignalOfSwapped(phase) == IF phase = "term" THEN "KILL" ELSE "TERM"
SignalOf(phase) == IF phase = "term" THEN "TERM" ELSE "KILL"

\* terminate() returned, so that line 155 appends the process to kill_procs
AcceptedAlways(r) == TRUE
Accepted(r) == r = "ok"

\* the branch on term_timeout
FirstPhaseAlwaysTerm(t) == "term"
FirstPhase(t) == IF t = 0 THEN "kill" ELSE "term"

\* psutil.wait_procs(procs, timeout)[1]: the processes still alive
StillAliveAll(procs) == Range(procs)
StillAlive(procs) == {p \in Range(procs) : alive[p]}

\* psutil.wait_procs returns before the timeout once nobody is left alive
ReturnsEarlyNever(procs) == FALSE
ReturnsEarly(procs) == StillAlive(procs) = {}

-----------------------------------------------------------------------------
\* No real_fh block is running.
FhIdle ==
    /\ fh = [kind |-> "none", fails |-> FALSE]
    /\ payload = <<>>
    /\ bodyPlan = "return"
    /\ spc = "init"
    /\ yielded = "unset"
    /\ nsent = 0
    /\ wbuf = <<>>
    /\ pipe = <<>>
    /\ wopen = FALSE
    /\ ropen = FALSE
    /\ fpc = "none"
    /\ chunk = <<>>
    /\ dest = <<>>
    /\ fhClosed = FALSE
    /\ sexc = ""
    /\ teardown = <<>>

\* port=None and timeout=None of wait_for_server
NoPort == 0
NoTimeout == -1

\* No wait_for_server call is running.
WfsIdle ==
    /\ wProc = "running"
    /\ wListen = {}
    /\ wIsPid = FALSE
    /\ wPort = NoPort
    /\ wIgnore = {}
    /\ wTimeout = NoTimeout
    /\ wpc = "idle"
    /\ now = 0
    /\ t0 = 0
    /\ wret = NoPort
    /\ wexc = ""
    /\ lastListen = {}
    /\ wPolled = FALSE
    /\ wProcAtCall = "unset"
    /\ wElapsed = 0

\* timeout=None of call, and the exit code of a call that has none to report
NoLimit == -1
NoCode == -1

\* No call of the command executor is running.
CallIdle ==
    /\ cFn = "call"
    /\ cCmd = [kind |-> "str", val |-> <<>>]
    /\ cShell = TRUE
    /\ cPwd = <<>>
    /\ cOs = "posix"
    /\ cTimeout = NoLimit
    /\ cStream = [kind |-> "none", fails |-> FALSE]
    /\ cProg = [found |-> TRUE, code |-> 0, dur |-> 0]
    /\ cDesc = 0
    /\ cpc = "idle"
    /\ cexc = ""
    /\ ccode = NoCode
    /\ logged = <<>>
    /\ executed = [wrap |-> "", cmd |-> <<>>, shell |-> FALSE]
    /\ spawned = FALSE
    /\ bridged = FALSE
    /\ cNow = 0

\* None for a string: os.getenv of a variable that is not set, value=None
NotSet == [defined |-> FALSE, val |-> <<>>]

\* No override_env block is running.
EnvIdle ==
    /\ oenv = [k \in {"K", "V"} |-> NotSet]
    /\ ekey = "K"
    /\ evalue = NotSet
    /\ orig = NotSet
    /\ ebody = "return"
    /\ epc = "idle"

\* max_results=None
NoMax == -1
NoExc == [type |-> "", got |-> 0, extra |-> FALSE]

\* No iterator of iglob exists.
GlobIdle ==
    /\ gtotal = 0
    /\ gpathOk = TRUE
    /\ gmin = 0
    /\ gmax = NoMax
    /\ gcount = 0
    /\ gconsumed = 0
    /\ gyielded = 0
    /\ gpc = "idle"
    /\ gexc = NoExc

\* None of the smaller functions is running.
MiscIdle == CallIdle /\ EnvIdle /\ GlobIdle

NumProcs == 2       \* processes that process_iter() yields
FindPids == 1..NumProcs

\* No find_procs_by_cmdline call is running.
FindIdle ==
    /\ osName = "posix"
    /\ environ = [defined |-> FALSE, V |-> <<>>]
    /\ cmdlines = <<>>
    /\ owner = [p \in FindPids |-> "unseen"]
    /\ cmdline = [p \in FindPids |-> <<>>]
    /\ access = [p \in FindPids |-> "unseen"]
    /\ findpc = "idle"
    /\ matches = <<>>
    /\ pidx = 1
    /\ fprocs = <<>>
    /\ fexc = ""
    /\ pidOf = [p \in FindPids |-> 0]

\* No kill call is running.
KillIdle ==
    /\ alive = [p \in Pids |-> TRUE]
    /\ args = <<>>
    /\ term_timeout = 0
    /\ kpc = "idle"
    /\ idx = 1
    /\ psutil_procs = <<>>
    /\ kill_procs = <<>>
    /\ timedOut = FALSE
    /\ sigLog = <<>>
    /\ aliveAtWait = {}
    /\ aliveAtCall = {}
    /\ kexc = ""

KillInit ==
    /\ MiscIdle
    /\ FhIdle
    /\ WfsIdle
    /\ FindIdle
    /\ alive = [p \in Pids |-> TRUE]
    /\ args \in SeqsUpTo(ArgVals, MaxArgs)
    /\ term_timeout \in {0, DefaultTermTimeout}
    /\ kpc = "idle"
    /\ idx = 1
    /\ psutil_procs = <<>>
    /\ kill_procs = <<>>
    /\ timedOut = FALSE
    /\ sigLog = <<>>
    /\ aliveAtWait = {}
    /\ aliveAtCall = {}
    /\ kexc = ""

\* A process named in the arguments exits, on its own or in reaction to a
\* SIGTERM.  (The exit of a process the call does not name plays no part in it.)
ProcExit(p) ==
    /\ kpc \notin {"done", "raised"}
    /\ \E i \in 1..Len(args) : args[i].pid = p
    /\ alive[p]
    /\ alive' = [alive EXCEPT ![p] = FALSE]
    /\ UNCHANGED <<args, term_timeout, kpc, idx, psutil_procs, kill_procs,
                   timedOut, sigLog, aliveAtWait, aliveAtCall, kexc>>
    /\ UNCHANGED <<fhVars, wfsVars, findVars, miscVars>>

\* kill is called.
KillCall ==
    /\ kpc = "idle"
    /\ kpc' = "filter"
    /\ aliveAtCall' = {p \in Pids : alive[p]}
    /\ UNCHANGED <<alive, args, term_timeout, idx, psutil_procs, kill_procs,
                   timedOut, sigLog, aliveAtWait, kexc>>
    /\ UNCHANGED <<fhVars, wfsVars, findVars, miscVars>>

\* One iteration of the filtering loop.
FilterStep ==
    /\ kpc = "filter"
    /\ idx <= Len(args)
    /\ LET a == args[idx]
           c == Classify(a)
       IN  \/ /\ c = "bad"
              /\ kpc' = "raised"
              /\ kexc' = "TypeError"
              /\ UNCHANGED <<idx, psutil_procs>>
           \/ /\ c = "none"
              /\ idx' = idx + 1
              /\ UNCHANGED <<kpc, kexc, psutil_procs>>
           \/ /\ c \in {"int", "proc"}
              /\ \E o \in FilterOutcomes(a) :
                    IF o \notin {"skip", "keep"} /\ o \notin Handled("filter")
                    THEN /\ kpc' = "raised"
                         /\ kexc' = o
                         /\ UNCHANGED <<idx, psutil_procs>>
                    ELSE /\ idx' = idx + 1
                         /\ psutil_procs' = IF o = "keep" THEN Append(psutil_procs, a.pid)
                                            ELSE psutil_procs
                         /\ UNCHANGED <<kpc, kexc>>
    /\ UNCHANGED <<alive, args, term_timeout, kill_procs, timedOut, sigLog, aliveAtWait, aliveAtCall>>
    /\ UNCHANGED <<fhVars, wfsVars, findVars, miscVars>>

\* After the filtering loop: return, or choose the first phase.
Dispatch ==
    /\ kpc = "filter"
    /\ idx > Len(args)
    /\ idx' = 1
    /\ IF psutil_procs = <<>>
       THEN kpc' = "done" /\ UNCHANGED kill_procs
       ELSE IF FirstPhase(term_timeout) = "kill"
            THEN kpc' = "kill" /\ kill_procs' = psutil_procs
            ELSE kpc' = "term" /\ kill_procs' = <<>>
    /\ UNCHANGED <<alive, args, term_timeout, psutil_procs, timedOut, sigLog, aliveAtWait, aliveAtCall, kexc>>
    /\ UNCHANGED <<fhVars, wfsVars, findVars, miscVars>>

\* One iteration of the SIGTERM loop.
TermStep ==
    /\ kpc = "term"
    /\ idx <= Len(psutil_procs)
    /\ LET p == psutil_procs[idx]
           r == SendSignal(p)
       IN  /\ sigLog' = Append(sigLog, [pid |-> p, sig |-> SignalOf("term"), res |-> r])
           /\ kill_procs' = IF Accepted(r) THEN Append(kill_procs, p) ELSE kill_procs
           /\ IF r # "ok" /\ ExcOf(r) \notin Handled("term")
              THEN kpc' = "raised" /\ kexc' = ExcOf(r) /\ UNCHANGED idx
              ELSE idx' = LoopNext(idx, r, Len(psutil_procs)) /\ UNCHANGED <<kpc, kexc>>
    /\ UNCHANGED <<alive, args, term_timeout, psutil_procs, timedOut, aliveAtWait, aliveAtCall>>
    /\ UNCHANGED <<fhVars, wfsVars, findVars, miscVars>>

\* The SIGTERM loop is over: enter psutil.wait_procs.
TermEnd ==
    /\ kpc = "term"
    /\ idx > Len(psutil_procs)
    /\ kpc' = "wait"
    /\ UNCHANGED <<alive, args, term_timeout, idx, psutil_procs, kill_procs,
                   timedOut, sigLog, aliveAtWait, aliveAtCall, kexc>>
    /\ UNCHANGED <<fhVars, wfsVars, findVars, miscVars>>

\* wait_procs returns at once when every signalled process is gone.
WaitGone ==
    /\ kpc = "wait"
    /\ ReturnsEarly(kill_procs)
    /\ aliveAtWait' = {p \in Pids : alive[p]}
    /\ kill_procs' = <<>>
    /\ idx' = 1
    /\ kpc' = "kill"
    /\ UNCHANGED <<alive, args, term_timeout, psutil_procs, timedOut, sigLog, aliveAtCall, kexc>>
    /\ UNCHANGED <<fhVars, wfsVars, findVars, miscVars>>

\* term_timeout elapses in wait_procs: it returns the processes still alive,
\* as a list of a set, in no particular order.
WaitTimeout ==
    /\ kpc = "wait"
    /\ ~ReturnsEarly(kill_procs)
    /\ timedOut' = TRUE
    /\ aliveAtWait' = {p \in Pids : alive[p]}
    /\ \E s \in SeqsOfSet(StillAlive(kill_procs)) : kill_procs' = s
    /\ idx' = 1
    /\ kpc' = "kill"
    /\ UNCHANGED <<alive, args, term_timeout, psutil_procs, sigLog, aliveAtCall, kexc>>
    /\ UNCHANGED <<fhVars, wfsVars, findVars, miscVars>>

\* One iteration of the SIGKILL loop.
KillStep ==
    /\ kpc = "kill"
    /\ idx <= Len(kill_procs)
    /\ LET p == kill_procs[idx]
           r == SendSignal(p)
       IN  /\ sigLog' = Append(sigLog, [pid |-> p, sig |-> SignalOf("kill"), res |-> r])
           /\ alive' = IF r = "ok" THEN [alive EXCEPT ![p] = FALSE] ELSE alive
           /\ IF r # "ok" /\ ExcOf(r) \notin Handled("kill")
              THEN kpc' = "raised" /\ kexc' = ExcOf(r) /\ UNCHANGED idx
              ELSE idx' = LoopNext(idx, r, Len(kill_procs)) /\ UNCHANGED <<kpc, kexc>>
    /\ UNCHANGED <<args, term_timeout, psutil_procs, kill_procs, timedOut, aliveAtWait, aliveAtCall>>
    /\ UNCHANGED <<fhVars, wfsVars, findVars, miscVars>>

\* The SIGKILL loop is over (or there was nobody to SIGKILL): kill returns.
KillReturn ==
    /\ kpc = "kill"
    /\ idx > Len(kill_procs)
    /\ kpc' = "done"
    /\ UNCHANGED <<alive, args, term_timeout, idx, psutil_procs, kill_procs,
                   timedOut, sigLog, aliveAtWait, aliveAtCall, kexc>>
    /\ UNCHANGED <<fhVars, wfsVars, findVars, miscVars>>

KillNext ==
    \/ \E p \in Targets : ProcExit(p)
    \/ KillCall
    \/ FilterStep
    \/ Dispatch
    \/ TermStep
    \/ TermEnd
    \/ WaitGone
    \/ WaitTimeout
    \/ KillStep
    \/ KillReturn

KillSpec == KillInit /\ [][KillNext]_vars

-----------------------------------------------------------------------------
(* Properties of kill *)

Protected == {Me} \cup Ancestors(Me)
Attempted(p, s) == \E i \in 1..Len(sigLog) : sigLog[i].pid = p /\ sigLog[i].sig = s
Delivered(p, s) == \E i \in 1..Len(sigLog) :
                       sigLog[i].pid = p /\ sigLog[i].sig = s /\ sigLog[i].res = "ok"
IsPidArg(a) == a.t \in {"int", "proc"}
HasStrArg == \E i \in 1..Len(args) : args[i] = StrArg

\* C1: neither SIGTERM nor SIGKILL is ever sent to the calling process or to one
\* of its direct or transitive ancestors, whatever the arguments and term_timeout.
C1_NeverSignalsSelfOrAncestors ==
    \A i \in 1..Len(sigLog) : sigLog[i].pid \notin Protected

\* C1 witness: a finished call that was given the caller or an ancestor, and sent signals.
C1_Witness ==
    /\ kpc = "done"
    /\ sigLog # <<>>
    /\ \E i \in 1..Len(args) : IsPidArg(args[i]) /\ args[i].pid \in Protected

\* C2: within one call no SIGTERM is sent once the first SIGKILL has been sent.
C2_TermBeforeKill ==
    \A i, j \in 1..Len(sigLog) :
        (sigLog[i].sig = "KILL" /\ sigLog[j].sig = "TERM") => j < i

\* C2 witness: a finished call that sent SIGTERM to two targets and then a SIGKILL.
C2_Witness ==
    /\ kpc = "done"
    /\ Len(sigLog) >= 3
    /\ sigLog[1].sig = "TERM" /\ sigLog[2].sig = "TERM"
    /\ sigLog[Len(sigLog)].sig = "KILL"

\* C3: with term_timeout > 0 every target that passed the filter is sent SIGTERM;
\* after the wait every target that accepted SIGTERM and is still alive is sent
\* SIGKILL, and a target that exited during the wait is not sent SIGKILL.
C3_Escalation ==
    (kpc = "done" /\ term_timeout > 0) =>
        /\ \A p \in Range(psutil_procs) : Attempted(p, "TERM")
        /\ \A i \in 1..Len(args) :
               (IsPidArg(args[i]) /\ args[i].pid \notin Protected /\ args[i].pid \in aliveAtWait)
                   => Attempted(args[i].pid, "TERM")
        /\ \A p \in Pids : (Delivered(p, "TERM") /\ p \in aliveAtWait) => Attempted(p, "KILL")
        /\ \A p \in Pids : p \notin aliveAtWait => ~Attempted(p, "KILL")

\* C3 witness: two targets accepted SIGTERM; one exited during the wait and got
\* no SIGKILL, the other survived the wait and got SIGKILL.
C3_Witness ==
    /\ kpc = "done" /\ term_timeout > 0
    /\ \E p, q \in Targets :
          /\ Delivered(p, "TERM") /\ p \in aliveAtWait /\ Delivered(p, "KILL")
          /\ Delivered(q, "TERM") /\ q \notin aliveAtWait /\ ~Attempted(q, "KILL")

\* C4: with term_timeout = 0 no SIGTERM is sent and no wait takes place; SIGKILL
\* is sent directly to every target that passed the filter.
C4_ZeroTimeoutKillsDirectly ==
    term_timeout = 0 =>
        /\ \A i \in 1..Len(sigLog) : sigLog[i].sig = "KILL"
        /\ kpc \notin {"term", "wait"}
        /\ ~timedOut /\ aliveAtWait = {}
        /\ kpc = "done" =>
              /\ Len(sigLog) = Len(psutil_procs)
              /\ \A i \in 1..Len(sigLog) : sigLog[i].pid = psutil_procs[i]

\* C4 witness: a finished call with term_timeout = 0 that sent SIGKILL to two targets.
C4_Witness ==
    /\ kpc = "done" /\ term_timeout = 0
    /\ Len(sigLog) = 2
    /\ sigLog[1].pid # sigLog[2].pid

\* C10: an argument that is neither an int, a psutil.Process nor None makes kill
\* raise TypeError with no signal sent, wherever the argument stands in the list.
C10_TypeErrorBeforeAnySignal ==
    HasStrArg =>
        /\ sigLog = <<>>
        /\ kpc \in {"done", "raised"} => (kpc = "raised" /\ kexc = "TypeError")

\* C10 witness: TypeError raised for a last argument that follows a killable target.
C10_Witness ==
    /\ kpc = "raised" /\ kexc = "TypeError"
    /\ Len(args) = 2 /\ args[2] = StrArg
    /\ IsPidArg(args[1]) /\ args[1].pid \in Targets \ Foreign /\ alive[args[1].pid]
    /\ psutil_procs = <<args[1].pid>>

\* an argument the filtering loop has nothing to do for: None, or the PID or
\* the handle of a process that had exited before the call
Skippable(a) == a = NoneArg \/ (IsPidArg(a) /\ a.pid \notin aliveAtCall)
AllSkippable == \A i \in 1..Len(args) : Skippable(args[i])

SentTo(s) == LET l == SelectSeq(sigLog, LAMBDA e : e.sig = s)
             IN  [i \in 1..Len(l) |-> l[i].pid]

\* C13: a signal that fails for one target (exited, or permission denied) does
\* not end the batch: every target of the phase is sent its signal, SIGTERM to
\* every target that passed the filter, SIGKILL to every target left to kill.
C13_FailureDoesNotAbortBatch ==
    kpc = "done" =>
        /\ term_timeout > 0 => SentTo("TERM") = psutil_procs
        /\ SentTo("KILL") = kill_procs
        /\ \A i \in 1..Len(sigLog) : sigLog[i].res # "ok" =>
               \A p \in Range(psutil_procs) :
                   Attempted(p, IF term_timeout > 0 THEN "TERM" ELSE "KILL")

\* C13 witness: SIGTERM failed for the first target and was then delivered to
\* the second, which was later sent SIGKILL.
C13_Witness ==
    /\ kpc = "done"
    /\ Len(sigLog) = 3
    /\ sigLog[1].sig = "TERM" /\ sigLog[1].res # "ok"
    /\ sigLog[2].sig = "TERM" /\ sigLog[2].res = "ok"
    /\ sigLog[3].sig = "KILL" /\ sigLog[3].pid = sigLog[2].pid

\* C14: with term_timeout > 0 the wait ends, before the timeout, once every
\* target that accepted SIGTERM has exited, and no SIGKILL follows.
C14_GraceWaitEndsEarly ==
    (term_timeout > 0 /\ kpc \in {"kill", "done"}
        /\ \A p \in Pids : Delivered(p, "TERM") => p \notin aliveAtWait)
    => /\ ~timedOut
       /\ kill_procs = <<>>
       /\ \A p \in Pids : ~Attempted(p, "KILL")

\* C14 witness: two targets accepted SIGTERM and exited; the call returned
\* without the timeout having expired and without a SIGKILL.
C14_Witness ==
    /\ kpc = "done" /\ term_timeout > 0
    /\ Len(sigLog) = 2
    /\ \A i \in 1..2 : sigLog[i].sig = "TERM" /\ sigLog[i].res = "ok"
                         /\ sigLog[i].pid \notin aliveAtWait
    /\ sigLog[1].pid # sigLog[2].pid
    /\ ~timedOut

-----------------------------------------------------------------------------
(* real_fh: the pipe bridge of pshell/call.py *)

(* Bounds of the model.  The buffers are scaled down: ChunkSize stands for  *)
(* the 4096 of real_fh_in.read(4096), PipeCap for the 64 kbytes of a Linux  *)
(* pipe, WBufCap for the buffer of the file object open(fd_out, 'w').       *)
MaxData == 5
ChunkSize == 2
PipeCap == 1
WBufCap == 1

\* What a body may write.  "CR" is a carriage return, "LF" a line feed.
Alphabet == {"a", "CR"}

FhKinds == {[kind |-> "none", fails |-> FALSE], [kind |-> "osfd", fails |-> FALSE]}
           \cup {[kind |-> k, fails |-> f] : k \in {"text", "bin"}, f \in BOOLEAN}

\* fh.fileno() returns instead of raising
HasFilenoNever(f) == FALSE
HasFileno(f) == f.kind = "osfd"

\* fh.write('') succeeds: text stream, bin_flag = ''; else bin_flag = 'b'
BinFlag(f) == IF f.kind = "text" THEN "" ELSE "b"

\* open(fd_in, 'r' + bin_flag): a text-mode reader has universal newlines
\* enabled, which hands a carriage return to the reader as a line feed.
ReadTranslate(u, flag) == IF flag = "" /\ u = "CR" THEN "LF" ELSE u

\* real_fh_in.read() sees end-of-file: the pipe is empty and nobody can write
PipeEOF == pipe = <<>> /\ ~wopen

Bridging == spc # "init" /\ yielded = "pipe_w"
Written == SubSeq(payload, 1, nsent)

FhInit ==
    /\ MiscIdle
    /\ KillIdle
    /\ WfsIdle
    /\ FindIdle
    /\ fh \in FhKinds
    /\ payload \in SeqsUpTo(Alphabet, MaxData)
    /\ bodyPlan \in {"return", "raise"}
    /\ spc = "init"
    /\ yielded = "unset"
    /\ nsent = 0
    /\ wbuf = <<>>
    /\ pipe = <<>>
    /\ wopen = FALSE
    /\ ropen = FALSE
    /\ fpc = "none"
    /\ chunk = <<>>
    /\ dest = <<>>
    /\ fhClosed = FALSE
    /\ sexc = ""
    /\ teardown = <<>>

\* The block is entered: real_fh runs up to its yield.
FhEnter ==
    /\ spc = "init"
    /\ spc' = "body"
    /\ IF fh.kind = "none"
       THEN yielded' = "None" /\ UNCHANGED <<wopen, ropen, fpc>>
       ELSE IF HasFileno(fh)
            THEN yielded' = "fh" /\ UNCHANGED <<wopen, ropen, fpc>>
            ELSE /\ yielded' = "pipe_w"
                 /\ wopen' = TRUE
                 /\ ropen' = TRUE
                 /\ fpc' = "read"
    /\ UNCHANGED <<fh, payload, bodyPlan, nsent, wbuf, pipe, chunk, dest, fhClosed,
                   sexc, teardown>>
    /\ UNCHANGED <<killVars, wfsVars, findVars, miscVars>>

\* The body writes its next item to the stream it was handed.
BodyWrite ==
    /\ spc = "body"
    /\ nsent < Len(payload)
    /\ \/ /\ yielded = "pipe_w"
          /\ Len(wbuf) < WBufCap
          /\ wbuf' = Append(wbuf, payload[nsent + 1])
          /\ UNCHANGED dest
       \/ /\ yielded = "fh"
          /\ dest' = Append(dest, payload[nsent + 1])
          /\ UNCHANGED wbuf
    /\ nsent' = nsent + 1
    /\ UNCHANGED <<fh, payload, bodyPlan, spc, yielded, pipe, wopen, ropen, fpc, chunk,
                   fhClosed, sexc, teardown>>
    /\ UNCHANGED <<killVars, wfsVars, findVars, miscVars>>

\* real_fh_out moves buffered data into the pipe; it blocks while the pipe is full.
WFlush ==
    /\ spc \in {"body", "closing"}
    /\ wopen
    /\ wbuf # <<>>
    /\ Len(pipe) < PipeCap
    /\ pipe' = Append(pipe, Head(wbuf))
    /\ wbuf' = Tail(wbuf)
    /\ UNCHANGED <<fh, payload, bodyPlan, spc, yielded, nsent, wopen, ropen, fpc, chunk,
                   dest, fhClosed, sexc, teardown>>
    /\ UNCHANGED <<killVars, wfsVars, findVars, miscVars>>

\* The body is over, by falling off its end or by raising.
BodyEnd ==
    /\ spc = "body"
    /\ nsent = Len(payload) \/ yielded = "None"
    /\ IF yielded = "pipe_w"
       THEN spc' = "closing" /\ UNCHANGED sexc
       ELSE spc' = "exited" /\ sexc' = IF bodyPlan = "raise" THEN "StubError" ELSE ""
    /\ UNCHANGED <<fh, payload, bodyPlan, yielded, nsent, wbuf, pipe, wopen, ropen, fpc,
                   chunk, dest, fhClosed, teardown>>
    /\ UNCHANGED <<killVars, wfsVars, findVars, miscVars>>

\* finally: real_fh_out.close(), once its buffer is flushed.
CloseOut ==
    /\ spc = "closing"
    /\ wbuf = <<>>
    /\ wopen' = FALSE
    /\ teardown' = Append(teardown, "close_out")
    /\ spc' = "joining"
    /\ UNCHANGED <<fh, payload, bodyPlan, yielded, nsent, wbuf, pipe, ropen, fpc, chunk,
                   dest, fhClosed, sexc>>
    /\ UNCHANGED <<killVars, wfsVars, findVars, miscVars>>

\* finally: flusher.join() returns when the thread has ended, however it ended.
Join ==
    /\ spc = "joining"
    /\ fpc \in {"done", "crashed"}
    /\ teardown' = Append(teardown, "join")
    /\ spc' = "closein"
    /\ UNCHANGED <<fh, payload, bodyPlan, yielded, nsent, wbuf, pipe, wopen, ropen, fpc,
                   chunk, dest, fhClosed, sexc>>
    /\ UNCHANGED <<killVars, wfsVars, findVars, miscVars>>

\* finally: real_fh_in.close(); the block is left, re-raising the body's exception.
CloseIn ==
    /\ spc = "closein"
    /\ ropen' = FALSE
    /\ teardown' = Append(teardown, "close_in")
    /\ spc' = "exited"
    /\ sexc' = IF bodyPlan = "raise" THEN "StubError" ELSE ""
    /\ UNCHANGED <<fh, payload, bodyPlan, yielded, nsent, wbuf, pipe, wopen, fpc, chunk,
                   dest, fhClosed>>
    /\ UNCHANGED <<killVars, wfsVars, findVars, miscVars>>

\* flush(): real_fh_in.read(4096) takes data out of the pipe; it returns when
\* ChunkSize items are read or at end-of-file, whichever comes first.
FlRead ==
    /\ fpc = "read"
    /\ ropen
    /\ pipe # <<>>
    /\ chunk' = Append(chunk, ReadTranslate(Head(pipe), BinFlag(fh)))
    /\ pipe' = Tail(pipe)
    /\ fpc' = IF Len(chunk) + 1 = ChunkSize THEN "write" ELSE "read"
    /\ UNCHANGED <<fh, payload, bodyPlan, spc, yielded, nsent, wbuf, wopen, ropen, dest,
                   fhClosed, sexc, teardown>>
    /\ UNCHANGED <<killVars, wfsVars, findVars, miscVars>>

\* flush(): read() meets end-of-file; an empty result ends the loop.
FlEof ==
    /\ fpc = "read"
    /\ ropen
    /\ PipeEOF
    /\ fpc' = IF chunk = <<>> THEN "done" ELSE "write"
    /\ UNCHANGED <<fh, payload, bodyPlan, spc, yielded, nsent, wbuf, pipe, wopen, ropen,
                   chunk, dest, fhClosed, sexc, teardown>>
    /\ UNCHANGED <<killVars, wfsVars, findVars, miscVars>>

\* flush(): fh.write(data); an exception of fh.write ends the thread.
FlWrite ==
    /\ fpc = "write"
    /\ IF fh.fails
       THEN fpc' = "crashed" /\ UNCHANGED dest
       ELSE fpc' = "read" /\ dest' = dest \o chunk
    /\ chunk' = <<>>
    /\ UNCHANGED <<fh, payload, bodyPlan, spc, yielded, nsent, wbuf, pipe, wopen, ropen,
                   fhClosed, sexc, teardown>>
    /\ UNCHANGED <<killVars, wfsVars, findVars, miscVars>>

FhNext ==
    \/ FhEnter
    \/ BodyWrite
    \/ WFlush
    \/ BodyEnd
    \/ CloseOut
    \/ Join
    \/ CloseIn
    \/ FlRead
    \/ FlEof
    \/ FlWrite

RealFhSpec == FhInit /\ [][FhNext]_vars

\* The scheduler runs every thread that can take a step.
RealFhFairSpec == RealFhSpec /\ WF_vars(FhNext)

-----------------------------------------------------------------------------
(* Properties of real_fh *)

TeardownOrder == <<"close_out", "join", "close_in">>
IsPrefix(s, t) == Len(s) <= Len(t) /\ SubSeq(t, 1, Len(s)) = s
FlusherEnded == fpc \in {"done", "crashed"}

\* The body, or the close() of the finally clause, waits for room in the pipe.
WriterBlocked ==
    /\ spc \in {"body", "closing"}
    /\ yielded = "pipe_w"
    /\ ~ENABLED (BodyWrite \/ WFlush \/ BodyEnd \/ CloseOut)

\* C5: for a stream without file descriptor, when the exit of the block returns
\* the original stream holds exactly the data written to the yielded write end,
\* in order, nothing lost, duplicated or left in the pipe.  Stated here for the
\* streams whose write() succeeds, the drain failure being the matter of C8.
C5_DestHoldsWhatWasWritten ==
    (Bridging /\ spc = "exited" /\ ~fh.fails) =>
        /\ dest = Written
        /\ wbuf = <<>> /\ pipe = <<>> /\ chunk = <<>>

\* What holds of C5 in the code: the round trip is exact for a binary stream.
BinaryRoundTrip ==
    (Bridging /\ spc = "exited" /\ ~fh.fails /\ fh.kind = "bin") =>
        /\ dest = Written
        /\ wbuf = <<>> /\ pipe = <<>> /\ chunk = <<>>

\* The ordering part of C6: write end closed, thread joined, read end closed;
\* the thread has ended when the block is left or the read end is closed.
TeardownInOrder ==
    Bridging =>
        /\ IsPrefix(teardown, TeardownOrder)
        /\ spc = "exited" => (teardown = TeardownOrder /\ FlusherEnded)
        /\ ~ropen => FlusherEnded
        /\ Len(teardown) > 0 => ~wopen

\* C6: on every exit path of a bridging block the teardown is: close the write
\* end, join the thread, close the read end; the thread has ended when the exit
\* returns, the read end is not closed while the thread can read, and an
\* exception of the body propagates after the data written reached the stream.
C6_TeardownAndPropagation ==
    /\ TeardownInOrder
    /\ (Bridging /\ spc = "exited" /\ bodyPlan = "raise") =>
           (sexc = "StubError" /\ dest = Written)

\* C7: a block whose body writes more than the pipe holds never deadlocks: as
\* long as the block is not left, some thread can take a step.
C7_NeverDeadlocks ==
    (Bridging /\ spc # "exited") => ENABLED FhNext

\* C7 as progress, under fair scheduling: a block that is entered is left.
C7_BlockIsLeft == (spc = "body") ~> (spc = "exited")

\* What holds of C7 in the code: with a stream whose write() succeeds there is
\* no deadlock, and under fair scheduling the block is left.
NoDeadlockWhenWriteSucceeds ==
    (Bridging /\ spc # "exited" /\ ~fh.fails) => ENABLED FhNext
BlockIsLeftWhenWriteSucceeds == (spc = "body" /\ ~fh.fails) ~> (spc = "exited")

\* C8: if fh.write raises in the flusher thread the writer is not left blocked
\* on the pipe, and the failure is raised to the block when it joins the thread.
C8_DrainFailureSurfaces ==
    fpc = "crashed" =>
        /\ ~WriterBlocked
        /\ spc = "exited" => sexc = "DrainError"

\* C9: real_fh(None) yields None and real_fh of a stream with a file descriptor
\* yields that stream; no pipe and no thread are created, the stream is not closed.
C9_PassThrough ==
    (spc # "init" /\ fh.kind \in {"none", "osfd"}) =>
        /\ yielded = IF fh.kind = "none" THEN "None" ELSE "fh"
        /\ ~wopen /\ ~ropen /\ pipe = <<>>
        /\ fpc = "none"
        /\ teardown = <<>>
        /\ ~fhClosed

\* C9 witness: a block over a stream with a file descriptor was left after its
\* body wrote to the stream it was handed.
C9_Witness ==
    /\ fh.kind = "osfd"
    /\ spc = "exited"
    /\ payload # <<>> /\ dest = payload

-----------------------------------------------------------------------------
(* wait_for_server (pshell/procs.py).  Time is counted in ticks of the     *)
(* clock read by time.time(); a port is a number of 1..NumPorts.           *)

NumPorts == 2       \* ports the observed process may listen on
MaxTimeout == 1     \* largest timeout argument, in ticks
MaxClock == MaxTimeout + 2

Ports == 1..NumPorts
Min(a, b) == IF a < b THEN a ELSE b

\* the clock d ticks after t (the clock of the model stops at MaxClock)
AdvanceNot(t, d) == t
Advance(t, d) == Min(t + d, MaxClock)

\* proc.connections() raises NoSuchProcess for a process that is no longer in
\* the process table.  A zombie is still in it and has no socket left: where
\* psutil reads the sockets from /proc (Linux) it gets an empty list, where it
\* asks the kernel about the process it raises ZombieProcess, which is a
\* NoSuchProcess.
ConnectionsMayRaise == wProc \in {"gone", "zombie"}
ConnectionsMayReturn == wProc \in {"running", "zombie"}
Listening == IF wProc = "running" THEN wListen ELSE {}

\* open_ports -= ignore_ports
OpenPortsKeepIgnored(listen, ignore) == listen
OpenPorts(listen, ignore) == listen \ ignore

\* the two return tests of the loop
Matches(port, open) == IF port = NoPort THEN open # {} ELSE port \in open

\* what the poll returns: open_ports.pop() picks any port of the set
Returned(port, open) == IF port = NoPort THEN open ELSE {port}

\* timeout is not None and time.time() - t0 > timeout
TimedOutWhenNone(timeout, elapsed) == elapsed > timeout
TimedOut(timeout, elapsed) == timeout # NoTimeout /\ elapsed > timeout

WfsActive == wpc \in {"poll", "check", "sleep"}
WfsEnded == wpc \in {"returned", "raised"}

WfsInit ==
    /\ MiscIdle
    /\ KillIdle
    /\ FhIdle
    /\ FindIdle
    /\ wProc \in {"running", "zombie", "gone"}
    /\ wListen \in SUBSET Ports
    /\ wProc # "running" => wListen = {}
    /\ wIsPid \in BOOLEAN
    /\ wPort \in Ports \cup {NoPort}
    /\ wIgnore \in SUBSET Ports
    /\ wTimeout \in (0..MaxTimeout) \cup {NoTimeout}
    /\ wpc = "idle"
    /\ now = 0
    /\ t0 = 0
    /\ wret = NoPort
    /\ wexc = ""
    /\ lastListen = {}
    /\ wPolled = FALSE
    /\ wProcAtCall = "unset"
    /\ wElapsed = 0

\* wait_for_server is called: a PID is turned into a psutil.Process, which
\* raises NoSuchProcess when no process has that PID; t0 is taken.
WfsCall ==
    /\ wpc = "idle"
    /\ wProcAtCall' = wProc
    /\ IF wIsPid /\ wProc = "gone"
       THEN wpc' = "raised" /\ wexc' = "NoSuchProcess" /\ UNCHANGED t0
       ELSE /\ wpc' = "poll"
            /\ t0' = IF wTimeout # NoTimeout THEN now ELSE t0
            /\ UNCHANGED wexc
    /\ UNCHANGED <<wProc, wListen, wIsPid, wPort, wIgnore, wTimeout, now, wret,
                   lastListen, wPolled, wElapsed>>
    /\ UNCHANGED <<killVars, fhVars, findVars, miscVars>>

\* One poll: the LISTEN ports are read, the ignored ones removed, and the call
\* returns when the port asked for, or any port if none was asked for, is there.
WfsPoll ==
    /\ wpc = "poll"
    /\ \/ /\ ConnectionsMayRaise
          /\ wpc' = "raised"
          /\ wexc' = "NoSuchProcess"
          /\ UNCHANGED <<wret, lastListen, wPolled>>
       \/ /\ ConnectionsMayReturn
          /\ lastListen' = Listening
          /\ wPolled' = TRUE
          /\ UNCHANGED wexc
          /\ LET open_ports == OpenPorts(Listening, wIgnore)
             IN  IF Matches(wPort, open_ports)
                 THEN /\ wpc' = "returned"
                      /\ wret' \in Returned(wPort, open_ports)
                 ELSE /\ wpc' = "check"
                      /\ UNCHANGED wret
    /\ \E d \in 0..1 : now' = Advance(now, d)
    /\ UNCHANGED <<wProc, wListen, wIsPid, wPort, wIgnore, wTimeout, t0,
                   wProcAtCall, wElapsed>>
    /\ UNCHANGED <<killVars, fhVars, findVars, miscVars>>

\* The timeout test that follows a poll without a match.
WfsCheck ==
    /\ wpc = "check"
    /\ wElapsed' = now - t0
    /\ IF TimedOut(wTimeout, now - t0)
       THEN wpc' = "raised" /\ wexc' = "TimeoutError"
       ELSE wpc' = "sleep" /\ UNCHANGED wexc
    /\ UNCHANGED <<wProc, wListen, wIsPid, wPort, wIgnore, wTimeout, now, t0, wret,
                   lastListen, wPolled, wProcAtCall>>
    /\ UNCHANGED <<killVars, fhVars, findVars, miscVars>>

\* time.sleep(0.01): time passes, then the loop polls again.
WfsSleep ==
    /\ wpc = "sleep"
    /\ \E d \in 1..2 : now' = Advance(now, d)
    /\ wpc' = "poll"
    /\ UNCHANGED <<wProc, wListen, wIsPid, wPort, wIgnore, wTimeout, t0, wret, wexc,
                   lastListen, wPolled, wProcAtCall, wElapsed>>
    /\ UNCHANGED <<killVars, fhVars, findVars, miscVars>>

\* The observed process starts or stops listening on a port.
WfsListen(p) ==
    /\ WfsActive
    /\ wProc = "running"
    /\ wListen' = IF p \in wListen THEN wListen \ {p} ELSE wListen \cup {p}
    /\ UNCHANGED <<wProc, wIsPid, wPort, wIgnore, wTimeout, wpc, now, t0, wret, wexc,
                   lastListen, wPolled, wProcAtCall, wElapsed>>
    /\ UNCHANGED <<killVars, fhVars, findVars, miscVars>>

\* The observed process exits: its sockets are closed; it stays in the process
\* table as a zombie until its parent reaps it.
WfsExit ==
    /\ WfsActive
    /\ wProc = "running"
    /\ wProc' \in {"zombie", "gone"}
    /\ wListen' = {}
    /\ UNCHANGED <<wIsPid, wPort, wIgnore, wTimeout, wpc, now, t0, wret, wexc,
                   lastListen, wPolled, wProcAtCall, wElapsed>>
    /\ UNCHANGED <<killVars, fhVars, findVars, miscVars>>

\* The parent of the zombie reaps it.
WfsReap ==
    /\ WfsActive
    /\ wProc = "zombie"
    /\ wProc' = "gone"
    /\ UNCHANGED <<wListen, wIsPid, wPort, wIgnore, wTimeout, wpc, now, t0, wret, wexc,
                   lastListen, wPolled, wProcAtCall, wElapsed>>
    /\ UNCHANGED <<killVars, fhVars, findVars, miscVars>>

WfsStep == WfsCall \/ WfsPoll \/ WfsCheck \/ WfsSleep

WfsNext ==
    \/ WfsStep
    \/ \E p \in Ports : WfsListen(p)
    \/ WfsExit
    \/ WfsReap

WfsSpec == WfsInit /\ [][WfsNext]_vars

\* the call is scheduled and time.sleep returns
WfsFairSpec == WfsSpec /\ WF_vars(WfsStep)

\* C15 (as claimed): when a port P is asked for, whatever ignore_ports is, the
\* call returns P at the first poll that finds the process listening on P: no
\* poll that saw P in LISTEN state went by without returning, and nothing but
\* P is returned.
C15_ReturnsRequestedPort ==
    wPort # NoPort =>
        /\ (wPolled /\ wpc # "returned") => wPort \notin lastListen
        /\ wpc = "returned" => wret = wPort

\* the part of C15 that the code has: a requested port that is not in
\* ignore_ports is returned by the first poll that sees it, and no other
\* value is ever returned.
RequestedPortReturnedUnlessIgnored ==
    wPort # NoPort =>
        /\ (wPolled /\ wpc # "returned" /\ wPort \notin wIgnore) => wPort \notin lastListen
        /\ wpc = "returned" => (wret = wPort /\ wPort \in lastListen)

\* C16: when no port is asked for, the port returned was in LISTEN state at
\* the poll that returned and is not in ignore_ports; a poll that finds every
\* listening port in ignore_ports does not return.
C16_ReturnsListeningPortNotIgnored ==
    wPort = NoPort =>
        /\ wpc = "returned" => (wret \in lastListen /\ wret \notin wIgnore)
        /\ (wPolled /\ lastListen \subseteq wIgnore) => wpc # "returned"
        /\ (wPolled /\ wpc # "returned") => lastListen \subseteq wIgnore

\* C16 witness: the process listens on an ignored port and on another one,
\* and the other one is returned.
C16_Witness ==
    /\ wpc = "returned" /\ wPort = NoPort
    /\ lastListen \cap wIgnore # {}
    /\ wret \in lastListen \ wIgnore

\* C17: TimeoutError is raised only with a timeout, after a poll that found no
\* match, once more than timeout has elapsed; and a timeout test that finds
\* more than timeout elapsed raises it rather than letting the loop go on.
C17_TimeoutError ==
    /\ wexc = "TimeoutError" =>
          /\ wpc = "raised"
          /\ wTimeout # NoTimeout
          /\ wPolled /\ ~Matches(wPort, OpenPorts(lastListen, wIgnore))
          /\ wElapsed > wTimeout
    /\ wpc = "sleep" => (wTimeout = NoTimeout \/ wElapsed <= wTimeout)
    /\ wTimeout = NoTimeout => wexc # "TimeoutError"

\* C17 witness: the timeout expired on a running process that listens on a
\* port other than the one asked for.
C17_Witness ==
    /\ wpc = "raised" /\ wexc = "TimeoutError"
    /\ wProc = "running"
    /\ wPort # NoPort /\ lastListen # {}
    /\ wTimeout = MaxTimeout

\* C18 (as claimed): a call on a process that had already exited ends with
\* NoSuchProcess: it returns no port and does not raise TimeoutError.
C18_ExitedRaisesNoSuchProcess ==
    wProcAtCall \in {"zombie", "gone"} =>
        /\ wret = NoPort /\ wpc # "returned"
        /\ wexc # "TimeoutError"
        /\ wpc = "raised" => wexc = "NoSuchProcess"

\* the part of C18 that the code has: a process that is no longer in the
\* process table makes the call raise NoSuchProcess before any poll succeeds.
GoneRaisesNoSuchProcess ==
    wProcAtCall = "gone" =>
        /\ wret = NoPort /\ wpc \in {"poll", "raised"}
        /\ ~wPolled
        /\ wpc = "raised" => wexc = "NoSuchProcess"
        /\ wIsPid => wpc = "raised"

\* C19: a call with a timeout ends (a port returned, TimeoutError or
\* NoSuchProcess), and a call that has ended takes no further step.
C19_TerminatesWithTimeout ==
    /\ (wpc # "idle" /\ wTimeout # NoTimeout) ~> WfsEnded
    /\ [][WfsEnded => UNCHANGED wfsVars]_vars
    /\ [](WfsEnded => (wret # NoPort \/ wexc \in {"TimeoutError", "NoSuchProcess"}))

\* C19 witness: a call with the largest timeout polled, slept and polled
\* again before the timeout expired.
C19_Witness ==
    /\ wpc = "raised" /\ wexc = "TimeoutError"
    /\ wTimeout = MaxTimeout
    /\ wElapsed = MaxTimeout + 1

-----------------------------------------------------------------------------
(* find_procs_by_cmdline (pshell/procs.py).  A string is a sequence of     *)
(* characters; "SP" is the space and "${V}" a reference to the environment *)
(* variable V in a pattern.                                                *)

MaxPatterns == 2    \* longest argument list of a find_procs_by_cmdline call

Space == "SP"
VarRef == "${V}"

\* the patterns a call may be given, and the argument lists a process may have
Patterns == { <<"a">>, <<"a", Space, "b">>, <<VarRef, "b">> }
ArgLists == { << <<"a">> >>, << <<"a">>, <<"b">> >>, << <<"a", "b">> >> }
Environs == { [defined |-> FALSE, V |-> <<>>], [defined |-> TRUE, V |-> <<"a">>] }

\* getpass.getuser(), and the users processes run as
CurrentUser == "me"
Users == {CurrentUser, "other"}

\* what process_iter() may yield: a readable process of any user, a process
\* that exits (or is a zombie) before it is inspected, or one of another user
\* that denies access to its command line ("denied") or to its owner as well
\* ("nouser")
ProcKinds ==
    {[o |-> u, a |-> "ok"] : u \in Users} \cup {[o |-> u, a |-> "gone"] : u \in Users}
        \cup {[o |-> "other", a |-> "denied"], [o |-> "other", a |-> "nouser"]}

\* resolve_env: string.Template(s).substitute(os.environ); an undefined
\* variable makes it raise OSError
MissingVar(s, env) == ~env.defined /\ \E i \in 1..Len(s) : s[i] = VarRef

RECURSIVE Substitute(_, _)
Substitute(s, env) ==
    IF s = <<>> THEN <<>>
    ELSE (IF Head(s) = VarRef THEN env.V ELSE <<Head(s)>>) \o Substitute(Tail(s), env)

\* " ".join(proc.cmdline())
RECURSIVE JoinArgs(_)
JoinArgs(a) ==
    IF a = <<>> THEN <<>>
    ELSE IF Len(a) = 1 THEN a[1]
    ELSE a[1] \o <<Space>> \o JoinArgs(Tail(a))

\* cmdline.find(match) != -1
Contains(s, m) == \E i \in 0..(Len(s) - Len(m)) : SubSeq(s, i + 1, i + Len(m)) = m

\* the inner loop over matches, left at the first match
MatchesAny(s, ms) == \E j \in 1..Len(ms) : Contains(s, ms[j])

\* the ownership test: skipped where os.name is "nt"
OwnerTested(os) == os # "nt"

\* the exceptions the try block of the loop catches
FindCaughtNoSuchProcessOnly == {"NoSuchProcess"}
FindCaught == {"NoSuchProcess", "AccessDenied"}

\* one iteration of the loop for a process of kind k with arguments c:
\* username() and cmdline() raise NoSuchProcess for a process that has exited,
\* and AccessDenied for a process that denies access to what they read
Inspect(os, k, c, ms) ==
    IF k.a = "gone" THEN "NoSuchProcess"
    ELSE IF OwnerTested(os) /\ k.a = "nouser" THEN "AccessDenied"
    ELSE IF OwnerTested(os) /\ k.o # CurrentUser THEN "skip"
    ELSE IF k.a \in {"denied", "nouser"} THEN "AccessDenied"
    ELSE IF MatchesAny(JoinArgs(c), ms) THEN "keep"
    ELSE "skip"

\* the kinds the process with PID pid can be of: the caller and its parents
\* are running, and a process is of another user exactly when it refuses the
\* caller's signals
KindAllowed(pid, k) ==
    \/ pid = 0
    \/ /\ pid # 0
       /\ (k.o # CurrentUser) = (pid \in Foreign)
       /\ pid \in ({Me} \cup Ancestors(Me)) => k.a = "ok"

FindInit ==
    /\ MiscIdle
    /\ KillIdle
    /\ FhIdle
    /\ WfsIdle
    /\ osName \in {"posix", "nt"}
    /\ environ \in Environs
    /\ cmdlines \in SeqsUpTo(Patterns, MaxPatterns)
    /\ owner = [p \in FindPids |-> "unseen"]
    /\ cmdline = [p \in FindPids |-> <<>>]
    /\ access = [p \in FindPids |-> "unseen"]
    /\ findpc = "idle"
    /\ matches = <<>>
    /\ pidx = 1
    /\ fprocs = <<>>
    /\ fexc = ""
    /\ pidOf = [p \in FindPids |-> 0]

\* find_procs_by_cmdline is called: the patterns are resolved.
FindCall ==
    /\ findpc = "idle"
    /\ IF \E i \in 1..Len(cmdlines) : MissingVar(cmdlines[i], environ)
       THEN findpc' = "raised" /\ fexc' = "OSError" /\ UNCHANGED matches
       ELSE /\ findpc' = "scan"
            /\ matches' = [i \in 1..Len(cmdlines) |-> Substitute(cmdlines[i], environ)]
            /\ UNCHANGED fexc
    /\ UNCHANGED <<osName, environ, cmdlines, owner, cmdline, access, pidx, fprocs, pidOf>>
    /\ UNCHANGED <<killVars, fhVars, wfsVars, miscVars>>

\* One iteration of the loop over process_iter(): the next process of the
\* process table is inspected.
FindInspect ==
    /\ findpc = "scan"
    /\ pidx <= NumProcs
    /\ \E k \in ProcKinds, c \in ArgLists :
          /\ KindAllowed(pidOf[pidx], k)
          /\ owner' = [owner EXCEPT ![pidx] = k.o]
          /\ access' = [access EXCEPT ![pidx] = k.a]
          /\ cmdline' = [cmdline EXCEPT ![pidx] = c]
          /\ LET r == Inspect(osName, k, c, matches)
             IN  IF r \notin {"keep", "skip"} /\ r \notin FindCaught
                 THEN /\ findpc' = "raised"
                      /\ fexc' = r
                      /\ UNCHANGED <<pidx, fprocs>>
                 ELSE /\ pidx' = pidx + 1
                      /\ fprocs' = IF r = "keep" THEN Append(fprocs, pidx) ELSE fprocs
                      /\ UNCHANGED <<findpc, fexc>>
    /\ UNCHANGED <<osName, environ, cmdlines, matches, pidOf>>
    /\ UNCHANGED <<killVars, fhVars, wfsVars, miscVars>>

\* process_iter() is exhausted: procs is returned.
FindReturn ==
    /\ findpc = "scan"
    /\ pidx > NumProcs
    /\ findpc' = "returned"
    /\ UNCHANGED <<osName, environ, cmdlines, owner, cmdline, access, matches, pidx,
                   fprocs, fexc, pidOf>>
    /\ UNCHANGED <<killVars, fhVars, wfsVars, miscVars>>

FindNext == FindCall \/ FindInspect \/ FindReturn

FindSpec == FindInit /\ [][FindNext]_vars

\* the live processes of the current user whose command line, joined by single
\* spaces, contains one of the resolved patterns
Expected ==
    {p \in FindPids :
        /\ access[p] = "ok"
        /\ owner[p] = CurrentUser
        /\ \E i \in 1..Len(cmdlines) :
              Contains(JoinArgs(cmdline[p]), Substitute(cmdlines[i], environ))}

NoDuplicates(l) == \A i, j \in 1..Len(l) : l[i] = l[j] => i = j

\* C20 (as claimed): the call returns exactly the live processes of the
\* current user whose joined command line contains one of the resolved
\* patterns, each of them once; the empty list when there is none.
C20_ReturnsExactlyTheMatches ==
    findpc = "returned" =>
        /\ Range(fprocs) = Expected
        /\ NoDuplicates(fprocs)
        /\ Expected = {} => fprocs = <<>>

\* the part of C20 that the code has: where the ownership test is made
\* (os.name is not "nt") the result is exactly the expected processes, and
\* everywhere it holds every expected process, once, and no process whose
\* command line matches no pattern.
ExactWhereOwnerIsTested ==
    findpc = "returned" =>
        /\ OwnerTested(osName) => Range(fprocs) = Expected
        /\ Expected \subseteq Range(fprocs)
        /\ NoDuplicates(fprocs)
        /\ \A p \in Range(fprocs) :
               /\ access[p] = "ok"
               /\ MatchesAny(JoinArgs(cmdline[p]), matches)

\* C21: a process that has exited or is a zombie when it is inspected, or that
\* denies access to its owner or command line, is left out of the result; it
\* does not make the call raise, and the processes after it are inspected.
C21_UnreadableProcessesAreSkipped ==
    /\ fexc \notin {"NoSuchProcess", "AccessDenied"}
    /\ findpc = "scan" => \A p \in 1..(pidx - 1) : access[p] # "unseen"
    /\ findpc = "returned" =>
          /\ \A p \in FindPids : access[p] # "unseen"
          /\ \A p \in FindPids : access[p] \in {"gone", "denied", "nouser"} => p \notin Range(fprocs)
          /\ Expected \subseteq Range(fprocs)

\* C21 witness: the first process enumerated denied access, and the one after
\* it was inspected and returned.
C21_Witness ==
    /\ findpc = "returned"
    /\ access[1] \in {"denied", "nouser"}
    /\ fprocs = <<2>>

-----------------------------------------------------------------------------
(* killall (pshell/procs.py): kill applied to what find_procs_by_cmdline  *)
(* returns.  The processes that process_iter() yields have consecutive     *)
(* PIDs, among them the caller.                                            *)

\* the PID of the first process enumerated: the caller's parent or the caller
FirstPids == {Me - 1, Me}

KillallInit ==
    /\ MiscIdle
    /\ FhIdle
    /\ WfsIdle
    /\ alive = [p \in Pids |-> TRUE]
    /\ args = <<>>
    /\ term_timeout \in {0, DefaultTermTimeout}
    /\ kpc = "idle"
    /\ idx = 1
    /\ psutil_procs = <<>>
    /\ kill_procs = <<>>
    /\ timedOut = FALSE
    /\ sigLog = <<>>
    /\ aliveAtWait = {}
    /\ aliveAtCall = {}
    /\ kexc = ""
    /\ osName \in {"posix", "nt"}
    /\ environ \in Environs
    /\ cmdlines \in {<<m>> : m \in Patterns}
    /\ owner = [p \in FindPids |-> "unseen"]
    /\ cmdline = [p \in FindPids |-> <<>>]
    /\ access = [p \in FindPids |-> "unseen"]
    /\ findpc = "idle"
    /\ matches = <<>>
    /\ pidx = 1
    /\ fprocs = <<>>
    /\ fexc = ""
    /\ \E b \in FirstPids : pidOf = [i \in FindPids |-> b + i - 1]

\* find_procs_by_cmdline has returned: its result is handed to kill, as
\* psutil.Process objects, with the term_timeout of the killall call.
KillallKill ==
    /\ findpc = "returned"
    /\ kpc = "idle"
    /\ pidOf[1] # 0
    /\ args' = [i \in 1..Len(fprocs) |-> ProcArg(pidOf[fprocs[i]])]
    /\ kpc' = "filter"
    /\ aliveAtCall' = {p \in Pids : alive[p]}
    /\ UNCHANGED <<alive, term_timeout, idx, psutil_procs, kill_procs,
                   timedOut, sigLog, aliveAtWait, kexc>>
    /\ UNCHANGED <<fhVars, wfsVars, findVars, miscVars>>

KillallNext ==
    \/ FindCall
    \/ FindInspect
    \/ FindReturn
    \/ KillallKill
    \/ \E p \in Targets : ProcExit(p)
    \/ FilterStep
    \/ Dispatch
    \/ TermStep
    \/ TermEnd
    \/ WaitGone
    \/ WaitTimeout
    \/ KillStep
    \/ KillReturn

KillallSpec == KillallInit /\ [][KillallNext]_vars

\* the processes find_procs_by_cmdline returned, by PID
FoundPids == {pidOf[fprocs[i]] : i \in 1..Len(fprocs)}

\* C22 (as claimed): find_procs_by_cmdline, when its result is fed to kill,
\* returns neither the current process nor one of its ancestors.
C22_FindNeverReturnsSelfOrAncestors ==
    pidOf[1] # 0 => FoundPids \cap Protected = {}

\* C22 (amended): find_procs_by_cmdline returns the current process and its
\* ancestors like any other process whose command line matches; it is kill
\* that leaves them out, so that killall never signals them.
C22_KillallNeverSignalsSelfOrAncestors ==
    pidOf[1] # 0 =>
        /\ \A i \in 1..Len(sigLog) : sigLog[i].pid \notin Protected
        /\ Range(psutil_procs) \cap Protected = {}
        /\ kpc # "idle" => {args[i].pid : i \in 1..Len(args)} = FoundPids
        /\ kexc = ""

\* C22 witness: the command lines of the caller and of another process
\* matched; find_procs_by_cmdline returned both, and killall signalled the
\* other one only.
C22_Witness ==
    /\ kpc = "done"
    /\ Me \in FoundPids
    /\ Len(fprocs) = 2
    /\ sigLog # <<>>
    /\ \A i \in 1..Len(sigLog) : sigLog[i].pid # Me


(***************************************************************************)
(* call, check_call, check_output (pshell/call.py).                        *)
(*                                                                         *)
(* A string is a sequence of characters.  The command is a string, a list  *)
(* of strings, a list with an item that is not a string (pathlib.Path,     *)
(* which subprocess accepts), or a value that cannot be iterated (None).   *)
(***************************************************************************)
MaxCmdLen == 2      \* longest command string, and longest argument vector
CallTimeout == 1    \* the timeout argument, when one is given

Quote == "Q"
CmdChars == {"a", "X"}
Mask == <<"X", "X", "X", "X">>

RECURSIVE StringsUpTo(_)
StringsUpTo(n) ==
    IF n = 0 THEN {<<>>}
    ELSE LET shorter == StringsUpTo(n - 1)
         IN  shorter \cup {Append(w, c) : w \in shorter, c \in CmdChars}

CmdStrings == StringsUpTo(MaxCmdLen) \ {<<>>}
CmdWords == {<<c>> : c \in CmdChars}
CmdVectors == UNION {[1..n -> CmdWords] : n \in 1..MaxCmdLen}
Passwords == {<<>>} \cup CmdWords

Commands ==
    {[kind |-> "str", val |-> w] : w \in CmdStrings}
    \cup {[kind |-> k, val |-> v] : k \in {"vec", "vecbad"}, v \in CmdVectors}
    \cup {[kind |-> "noniter", val |-> <<>>]}

\* sep.join(items) of a list of strings
RECURSIVE StrJoin(_, _)
StrJoin(sep, items) ==
    IF Len(items) = 0 THEN <<>>
    ELSE IF Len(items) = 1 THEN items[1]
    ELSE items[1] \o sep \o StrJoin(sep, Tail(items))

\* '"' + '" "'.join(log_cmd) + '"'
QuoteJoin(items) == <<Quote>> \o StrJoin(<<Quote, Space, Quote>>, items) \o <<Quote>>

\* s.replace(old, new) for a non-empty old: the occurrences of old, found
\* from the left and not overlapping, each give way to new
RECURSIVE Replace(_, _, _)
Replace(s, old, new) ==
    IF Len(s) < Len(old) THEN s
    ELSE IF SubSeq(s, 1, Len(old)) = old
         THEN new \o Replace(SubSeq(s, Len(old) + 1, Len(s)), old, new)
         ELSE <<Head(s)>> \o Replace(Tail(s), old, new)

\* the exception the formatting of log_cmd raises, "" if none: str.join
\* accepts nothing but an iterable of strings
FormatError(cmd) == IF cmd.kind \in {"vecbad", "noniter"} THEN "TypeError" ELSE ""

\* log_cmd, lines 119-123
LogCmd(cmd, pwd) ==
    LET text == IF cmd.kind = "str" THEN cmd.val ELSE QuoteJoin(cmd.val)
    IN  IF pwd # <<>> THEN Replace(text, pwd, Mask) ELSE text

\* the test that rejects a command that is not a string, line 125
ShellNeedsString(cmd) == cmd.kind # "str"

\* the exception _call_cmd raises, "" if none
CallCmdError(cmd, shell) ==
    IF FormatError(cmd) # "" THEN FormatError(cmd)
    ELSE IF shell /\ ShellNeedsString(cmd) THEN "ValueError"
    ELSE ""

\* the pair _call_cmd returns: on POSIX a shell command goes to bash -c
\* behind the set -o prologue and shell becomes False
CallCmdResult(cmd, shell, os) ==
    IF shell /\ os # "nt"
    THEN [wrap |-> "bash", cmd |-> cmd, shell |-> FALSE]
    ELSE [wrap |-> "", cmd |-> cmd, shell |-> shell]

\* cmd, shell = _call_cmd(cmd, obfuscate_pwd, shell): the first statement
\* of call, check_call and check_output
CallCmd ==
    /\ cpc = "idle"
    /\ IF CallCmdError(cCmd, cShell) # ""
       THEN /\ cpc' = "raised"
            /\ cexc' = CallCmdError(cCmd, cShell)
            /\ UNCHANGED <<logged, executed>>
       ELSE /\ cpc' = "enter"
            /\ logged' = LogCmd(cCmd, cPwd)
            /\ executed' = CallCmdResult(cCmd, cShell, cOs)
            /\ cexc' = ""
    /\ UNCHANGED <<cFn, cCmd, cShell, cPwd, cOs, cTimeout, cStream, cProg, cDesc,
                   ccode, spawned, bridged, cNow>>
    /\ UNCHANGED <<killVars, fhVars, wfsVars, findVars, envVars, globVars>>


Later(a, b) == IF a > b THEN a ELSE b

CallFns == {"call", "check_call", "check_output"}
ExitCodes == {0, 1, 127}
Programs == [found : BOOLEAN, code : ExitCodes, dur : {0, CallTimeout + 1}]
CallStreams == {[kind |-> k, fails |-> FALSE] : k \in {"none", "osfd", "text"}}

\* real_fh hands out the write end of a pipe of its own, lines 57-87
NeedsBridge(f) == f.kind # "none" /\ ~HasFileno(f)

\* the streams that go through real_fh: stdout and stderr, or stderr alone
CallEnterFh ==
    /\ cpc = "enter"
    /\ cpc' = "popen"
    /\ bridged' = NeedsBridge(cStream)
    /\ UNCHANGED <<cFn, cCmd, cShell, cPwd, cOs, cTimeout, cStream, cProg, cDesc,
                   cexc, ccode, logged, executed, spawned, cNow>>
    /\ UNCHANGED <<killVars, fhVars, wfsVars, findVars, envVars, globVars>>

\* the command goes through a shell: bash -c, or shell=True on Windows
ViaShell(ex) == ex.wrap = "bash" \/ ex.shell

\* the exit code of a shell that does not find the program
ShellNotFoundCode(os) == IF os = "nt" THEN 1 ELSE 127

\* Popen: a program that does not exist fails the exec, unless a shell
\* stands in between, which is then the child
PopenError(ex, prog) == IF ~ViaShell(ex) /\ ~prog.found THEN "FileNotFoundError" ELSE ""

\* the child: its exit code and how long it runs
Child(ex, os, prog) ==
    IF prog.found THEN [code |-> prog.code, dur |-> prog.dur]
    ELSE [code |-> ShellNotFoundCode(os), dur |-> 0]

CallPopen ==
    /\ cpc = "popen"
    /\ IF PopenError(executed, cProg) # ""
       THEN /\ cpc' = "exit"
            /\ cexc' = PopenError(executed, cProg)
            /\ UNCHANGED spawned
       ELSE /\ cpc' = "wait"
            /\ spawned' = TRUE
            /\ UNCHANGED cexc
    /\ UNCHANGED <<cFn, cCmd, cShell, cPwd, cOs, cTimeout, cStream, cProg, cDesc,
                   ccode, logged, executed, bridged, cNow>>
    /\ UNCHANGED <<killVars, fhVars, wfsVars, findVars, envVars, globVars>>

\* what the function of subprocess waits for: call and check_call for the
\* child, check_output also for the end of the child's output, which comes
\* when the last holder of the pipe has closed it
WaitsUntil(fn, child, desc) ==
    IF fn = "check_output" THEN Later(child.dur, desc) ELSE child.dur

Expires(fn, child, desc, timeout) ==
    timeout # NoLimit /\ WaitsUntil(fn, child, desc) > timeout

\* non-zero exit codes that raise: none for call
ChecksCode(fn) == fn # "call"

\* the outcome of the function of subprocess: the exception, the exit code
\* and the time
WaitOutcome(fn, child, desc, timeout) ==
    IF Expires(fn, child, desc, timeout)
    THEN [exc |-> "TimeoutExpired", code |-> NoCode, at |-> timeout]
    ELSE IF ChecksCode(fn) /\ child.code # 0
    THEN [exc |-> "CalledProcessError", code |-> child.code,
          at |-> WaitsUntil(fn, child, desc)]
    ELSE [exc |-> "", code |-> child.code, at |-> WaitsUntil(fn, child, desc)]

CallWait ==
    /\ cpc = "wait"
    /\ LET out == WaitOutcome(cFn, Child(executed, cOs, cProg), cDesc, cTimeout)
       IN  /\ cexc' = out.exc
           /\ ccode' = out.code
           /\ cNow' = out.at
    /\ cpc' = "exit"
    /\ UNCHANGED <<cFn, cCmd, cShell, cPwd, cOs, cTimeout, cStream, cProg, cDesc,
                   logged, executed, spawned, bridged>>
    /\ UNCHANGED <<killVars, fhVars, wfsVars, findVars, envVars, globVars>>

\* the finally clause of real_fh joins the flusher, which reads until every
\* holder of the pipe's write end has closed it
JoinEnds(t, isBridged, desc) == IF isBridged THEN Later(t, desc) ELSE t

\* The with block is left; the value is returned or the exception goes on.
CallExitFh ==
    /\ cpc = "exit"
    /\ cNow' = JoinEnds(cNow, bridged, cDesc)
    /\ cpc' = IF cexc = "" THEN "returned" ELSE "raised"
    /\ UNCHANGED <<cFn, cCmd, cShell, cPwd, cOs, cTimeout, cStream, cProg, cDesc,
                   cexc, ccode, logged, executed, spawned, bridged>>
    /\ UNCHANGED <<killVars, fhVars, wfsVars, findVars, envVars, globVars>>

CallNext == CallCmd \/ CallEnterFh \/ CallPopen \/ CallWait \/ CallExitFh

CallStart ==
    /\ KillIdle /\ FhIdle /\ WfsIdle /\ FindIdle /\ EnvIdle /\ GlobIdle
    /\ cFn \in CallFns
    /\ cShell \in BOOLEAN
    /\ cOs \in {"posix", "nt"}
    /\ cpc = "idle"
    /\ cexc = ""
    /\ ccode = NoCode
    /\ logged = <<>>
    /\ executed = [wrap |-> "", cmd |-> <<>>, shell |-> FALSE]
    /\ spawned = FALSE
    /\ bridged = FALSE
    /\ cNow = 0

\* Calls with every command and password; the program exits at once.
CallArgsInit ==
    /\ CallStart
    /\ cCmd \in Commands
    /\ cPwd \in Passwords
    /\ cTimeout = NoLimit
    /\ cStream \in CallStreams
    /\ cProg = [found |-> TRUE, code |-> 0, dur |-> 0]
    /\ cDesc = 0

\* Calls of every program, with and without a timeout; the command is one
\* word or a vector of one word.
CallRunInit ==
    /\ CallStart
    /\ cCmd \in {[kind |-> "str", val |-> <<"a">>], [kind |-> "vec", val |-> << <<"a">> >>]}
    /\ cPwd = <<>>
    /\ cTimeout \in {NoLimit, CallTimeout}
    /\ cStream \in CallStreams
    /\ cProg \in Programs
    /\ cDesc \in {0, CallTimeout + 2}
    /\ cDesc # 0 => cProg.found

CallArgsSpec == CallArgsInit /\ [][CallNext]_vars
CallRunSpec == CallRunInit /\ [][CallNext]_vars

CallEnded == cpc \in {"returned", "raised"}

\* C23: call, check_call and check_output, given shell=True and a command
\* that is not a string, raise ValueError, and do so before a child process
\* is spawned and before a pipe and its flusher are made.
C23_NonStringShellCommandRaisesValueError ==
    (cShell /\ cCmd.kind # "str" /\ cpc # "idle") =>
        (cpc = "raised" /\ cexc = "ValueError" /\ ~spawned /\ ~bridged)

\* What the code does keep for such a command: the call ends in ValueError or
\* TypeError with nothing spawned and no bridge made.
NonStringShellCommandRaisesEarly ==
    (cShell /\ cCmd.kind # "str" /\ cpc # "idle") =>
        (cpc = "raised" /\ cexc \in {"ValueError", "TypeError"} /\ ~spawned /\ ~bridged)

\* C24: for every command and every non-empty obfuscate_pwd the logged text
\* does not contain obfuscate_pwd, and the command executed is the command
\* given.
C24_LoggedCommandHidesPassword ==
    (logged # <<>> /\ cPwd # <<>>) =>
        (~Contains(logged, cPwd) /\ executed.cmd = cCmd)

\* What the code does keep: the redaction never touches the command executed.
ExecutedCommandIsTheOneGiven == logged # <<>> => executed.cmd = cCmd


\* Why a run of a program does not end well, "ok" if it does.
Cause(fn, ex, os, prog, desc, timeout) ==
    IF ~prog.found THEN "not found"
    ELSE IF Expires(fn, Child(ex, os, prog), desc, timeout) THEN "timeout"
    ELSE IF prog.code # 0 THEN "non-zero"
    ELSE "ok"

\* What the caller gets: the exception and the exit code.
Surfaces(fn, ex, os, prog, desc, timeout) ==
    IF PopenError(ex, prog) # ""
    THEN [exc |-> PopenError(ex, prog), code |-> NoCode]
    ELSE LET out == WaitOutcome(fn, Child(ex, os, prog), desc, timeout)
         IN  [exc |-> out.exc, code |-> out.code]

\* The programs, with the descendants they leave, whose run fails for another
\* reason than the run made, and yet gives the caller what this run gave.
Confusable ==
    {r \in Programs \X {0, cDesc} :
        /\ r[2] # 0 => r[1].found
        /\ Cause(cFn, executed, cOs, r[1], r[2], cTimeout) # "ok"
        /\ Cause(cFn, executed, cOs, r[1], r[2], cTimeout)
              # Cause(cFn, executed, cOs, cProg, cDesc, cTimeout)
        /\ Surfaces(cFn, executed, cOs, r[1], r[2], cTimeout)
              = [exc |-> cexc, code |-> ccode]}

Failed == CallEnded /\ executed.cmd # <<>>
             /\ Cause(cFn, executed, cOs, cProg, cDesc, cTimeout) # "ok"

\* C25: in shell mode and in direct-exec mode, a command that is not found, a
\* command that ran and exited non-zero, and a command that exceeded the
\* timeout surface as three conditions the caller can tell apart.
C25_FailuresAreToldApart == Failed => Confusable = {}

\* What the code does keep: without a shell in between the three are told
\* apart.
DirectExecFailuresAreToldApart == (Failed /\ ~ViaShell(executed)) => Confusable = {}

\* C26: call and check_call, given a timeout, hand control back when the
\* child has exited or the timeout has elapsed, whichever comes first, also
\* when a stream goes through real_fh and descendants of the child still
\* hold the write end of the pipe.
C26_ReturnsAtExitOrTimeout ==
    (cFn \in {"call", "check_call"} /\ cTimeout # NoLimit /\ CallEnded /\ spawned) =>
        cNow = Min(Child(executed, cOs, cProg).dur, cTimeout)

\* What the code does keep: the same when no stream is bridged, or the child
\* leaves no descendant.
ReturnsAtExitOrTimeoutUnlessHeld ==
    (cFn \in {"call", "check_call"} /\ cTimeout # NoLimit /\ CallEnded /\ spawned
        /\ (~bridged \/ cDesc = 0)) =>
        cNow = Min(Child(executed, cOs, cProg).dur, cTimeout)


(***************************************************************************)
(* override_env (pshell/env.py).  The environment has the variables K and  *)
(* V; a value is a sequence of characters in which "${V}" stands for a     *)
(* reference to V, as in the patterns of find_procs_by_cmdline.            *)
(***************************************************************************)
MaxValLen == 2      \* longest value of a variable

EnvKeys == {"K", "V"}
ValChars == {"a", VarRef}

RECURSIVE ValuesUpTo(_)
ValuesUpTo(n) ==
    IF n = 0 THEN {<<>>}
    ELSE LET shorter == ValuesUpTo(n - 1)
         IN  shorter \cup {Append(w, c) : w \in shorter, c \in ValChars}

\* a string or None
OptValues == {NotSet} \cup {[defined |-> TRUE, val |-> w] : w \in ValuesUpTo(MaxValLen)}

\* os.environ as resolve_env reads it
Mapping(e) == [defined |-> e["V"].defined, V |-> e["V"].val]

\* _putenv raises: resolve_env does not find a variable the value refers to
PutenvRaises(e, value) == value.defined /\ MissingVar(value.val, Mapping(e))

\* the value _putenv stores for a string: resolve_env(str(value))
Stored(e, w) == Substitute(w, Mapping(e))

\* os.environ after _putenv(key, value): the variable is popped for None and
\* set to the resolved value for a string
Putenv(e, key, value) ==
    IF value.defined
    THEN [e EXCEPT ![key] = [defined |-> TRUE, val |-> Stored(e, value.val)]]
    ELSE [e EXCEPT ![key] = NotSet]

EnvInit ==
    /\ KillIdle /\ FhIdle /\ WfsIdle /\ FindIdle /\ CallIdle /\ GlobIdle
    /\ oenv \in [EnvKeys -> OptValues]
    /\ ekey \in EnvKeys
    /\ evalue \in OptValues
    /\ orig = NotSet
    /\ ebody \in {"return", "raise"}
    /\ epc = "idle"

\* orig = os.getenv(key); _putenv(key, value), lines 123-124
EnvEnter ==
    /\ epc = "idle"
    /\ orig' = oenv[ekey]
    /\ IF PutenvRaises(oenv, evalue)
       THEN epc' = "refused" /\ UNCHANGED oenv
       ELSE epc' = "body" /\ oenv' = Putenv(oenv, ekey, evalue)
    /\ UNCHANGED <<ekey, evalue, ebody>>
    /\ UNCHANGED <<killVars, fhVars, wfsVars, findVars, callVars, globVars>>

\* The body, at the yield of line 127, returns or raises.
EnvBody ==
    /\ epc = "body"
    /\ epc' = "finally"
    /\ UNCHANGED <<oenv, ekey, evalue, orig, ebody>>
    /\ UNCHANGED <<killVars, fhVars, wfsVars, findVars, callVars, globVars>>

\* finally: _putenv(key, orig), line 129
EnvRestore ==
    /\ epc = "finally"
    /\ IF PutenvRaises(oenv, orig)
       THEN epc' = "broken" /\ UNCHANGED oenv
       ELSE epc' = "left" /\ oenv' = Putenv(oenv, ekey, orig)
    /\ UNCHANGED <<ekey, evalue, orig, ebody>>
    /\ UNCHANGED <<killVars, fhVars, wfsVars, findVars, callVars, globVars>>

EnvNext == EnvEnter \/ EnvBody \/ EnvRestore
EnvSpec == EnvInit /\ [][EnvNext]_vars

\* the block was entered and has been left, by a return or by an exception
BlockLeft == epc \in {"left", "broken"}

\* C27: after an override_env(key, value) block is left, normally or by an
\* exception of its body, the variable key has exactly the value it had
\* before the block was entered, or is absent if it was absent before.
C27_BlockRestoresPriorValue == BlockLeft => oenv[ekey] = orig

\* What the code does keep: a prior value without a reference comes back
\* exactly, and an absent variable is absent again.
PlainPriorValueIsRestored ==
    (BlockLeft /\ \A i \in 1..Len(orig.val) : orig.val[i] # VarRef) =>
        (epc = "left" /\ oenv[ekey] = orig)


(***************************************************************************)
(* iglob (pshell/search.py): a generator; each next() of the caller runs   *)
(* its body up to the next yield, raise or return.                         *)
(***************************************************************************)
MaxFound == 3       \* most results of the underlying glob.iglob
MaxWanted == 2      \* largest min_results and max_results

\* the test of line 152
ExceedsLate(max, count) == max # NoMax /\ count > max + 1
Exceeds(max, count) == max # NoMax /\ count > max

\* the tests of lines 144-147
BadLimits(min, max) == min < 0 \/ (max # NoMax /\ max < min)

GlobInit ==
    /\ KillIdle /\ FhIdle /\ WfsIdle /\ FindIdle /\ CallIdle /\ EnvIdle
    /\ gtotal \in 0..MaxFound
    /\ gpathOk \in BOOLEAN
    /\ gmin \in -1..MaxWanted
    /\ gmax \in {NoMax} \cup 0..MaxWanted
    /\ gcount = 0
    /\ gconsumed = 0
    /\ gyielded = 0
    /\ gpc = "new"
    /\ gexc = NoExc

\* One turn of the for loop of lines 150-157, from the request for the next
\* result of the underlying iterator to the yield, the raise or the return.
LoopTurn ==
    IF gconsumed < gtotal
    THEN /\ gconsumed' = gconsumed + 1
         /\ gcount' = gcount + 1
         /\ IF Exceeds(gmax, gcount + 1)
            THEN /\ gpc' = "raised"
                 /\ gexc' = [type |-> "FileMatchError", got |-> gcount + 1, extra |-> TRUE]
                 /\ UNCHANGED gyielded
            ELSE /\ gpc' = "suspended"
                 /\ gyielded' = gyielded + 1
                 /\ UNCHANGED gexc
    ELSE /\ IF gcount < gmin
            THEN /\ gpc' = "raised"
                 /\ gexc' = [type |-> "FileMatchError", got |-> gcount, extra |-> FALSE]
            ELSE /\ gpc' = "done"
                 /\ UNCHANGED gexc
         /\ UNCHANGED <<gconsumed, gcount, gyielded>>

\* The first next(): the body starts, lines 144-150.
GlobStart ==
    /\ gpc = "new"
    /\ IF BadLimits(gmin, gmax)
       THEN /\ gpc' = "raised"
            /\ gexc' = [type |-> "ValueError", got |-> 0, extra |-> FALSE]
            /\ UNCHANGED <<gconsumed, gcount, gyielded>>
       ELSE IF ~gpathOk
       THEN /\ gpc' = "raised"
            /\ gexc' = [type |-> "OSError", got |-> 0, extra |-> FALSE]
            /\ UNCHANGED <<gconsumed, gcount, gyielded>>
       ELSE LoopTurn
    /\ UNCHANGED <<gtotal, gpathOk, gmin, gmax>>
    /\ UNCHANGED <<killVars, fhVars, wfsVars, findVars, callVars, envVars>>

\* A later next(): the body goes on after the yield of line 154.
GlobResume ==
    /\ gpc = "suspended"
    /\ LoopTurn
    /\ UNCHANGED <<gtotal, gpathOk, gmin, gmax>>
    /\ UNCHANGED <<killVars, fhVars, wfsVars, findVars, callVars, envVars>>

GlobNext == GlobStart \/ GlobResume
GlobSpec == GlobInit /\ [][GlobNext]_vars

\* the caller has asked for more than max_results items
AskedBeyondMax == gmax # NoMax /\ gpc \in {"done", "raised"} /\ gexc.type # "ValueError"
                      /\ gexc.type # "OSError" /\ gtotal > gmax

\* C28: iglob with max_results = M yields at most M items; when the match has
\* more than M results, the request for item M+1 raises FileMatchError with
\* got_results = M+1 and the at-least flag set, the rest of the match is not
\* consumed and the M items yielded stay yielded.
C28_YieldsAtMostMaxResults ==
    /\ (gmax # NoMax /\ gpc # "idle") => gyielded <= Later(gmax, 0)
    /\ AskedBeyondMax =>
          /\ gexc = [type |-> "FileMatchError", got |-> gmax + 1, extra |-> TRUE]
          /\ gyielded = gmax
          /\ gconsumed = gmax + 1
    /\ (gexc.type = "FileMatchError" /\ gexc.extra) => gtotal > gmax

C28_Witness ==
    /\ gexc = [type |-> "FileMatchError", got |-> 2, extra |-> TRUE]
    /\ gmax = 1 /\ gyielded = 1 /\ gtotal = 3 /\ gconsumed = 2


(***************************************************************************)
(* kill (pshell/procs.py): which signal goes to whom, and how often.       *)
(***************************************************************************)

\* C29: in a kill call with term_timeout > 0, SIGKILL is sent only to targets
\* that accepted SIGTERM earlier in the same call.
C29_KillOnlyAfterAcceptedTerm ==
    term_timeout # 0 =>
        \A i \in 1..Len(sigLog) :
            sigLog[i].sig = "KILL" =>
                \E j \in 1..(i - 1) :
                    /\ sigLog[j].pid = sigLog[i].pid
                    /\ sigLog[j].sig = "TERM"
                    /\ sigLog[j].res = "ok"

\* a SIGKILL follows the SIGTERM a process accepted, while another target
\* refused its SIGTERM and gets no SIGKILL
C29_Witness ==
    /\ term_timeout # 0
    /\ kpc = "done"
    /\ \E i \in 1..Len(sigLog) : sigLog[i].sig = "KILL" /\ sigLog[i].res = "ok"
    /\ \E p \in Targets : Attempted(p, "TERM") /\ ~Delivered(p, "TERM") /\ ~Attempted(p, "KILL")

\* the entries of the log of signals that reached process p as signal s
Deliveries(p, s) ==
    {i \in 1..Len(sigLog) : sigLog[i].pid = p /\ sigLog[i].sig = s /\ sigLog[i].res = "ok"}

\* C30: within one kill call, whatever the argument list, no process is sent
\* SIGTERM more than once and no process is sent SIGKILL more than once.
C30_NoSignalTwice ==
    \A p \in Pids : \A s \in {"TERM", "KILL"} : Cardinality(Deliveries(p, s)) <= 1

\* the arguments name no process twice
DistinctArgs ==
    \A i, j \in 1..Len(args) :
        (IsPidArg(args[i]) /\ IsPidArg(args[j]) /\ args[i].pid = args[j].pid) => i = j

\* What the code does keep: no signal twice when the arguments name no
\* process twice.
NoSignalTwiceForDistinctArgs ==
    DistinctArgs =>
        \A i, j \in 1..Len(sigLog) :
            (sigLog[i].pid = sigLog[j].pid /\ sigLog[i].sig = sigLog[j].sig) => i = j

====
